---- MODULE Spec2Model ----
(***************************************************************************)
(* Model of the uptime monitor (src/main.go): the endpoint registry and   *)
(* the status store behind one sync.RWMutex, the scheduler goroutine       *)
(* (monitorEndpoints / checkAllEndpoints / checkEndpoint), the POST        *)
(* /endpoint handler (handleEndpoint) and the GET /status handler          *)
(* (getStatus).                                                            *)
(*                                                                         *)
(* Time is counted in hours since process start.  The clock moves in      *)
(* steps of half a history window, and only while no goroutine is inside  *)
(* an exclusive critical section (those sections never block).            *)
(***************************************************************************)
EXTENDS Integers, Sequences, FiniteSets, TLC

VARIABLES
    endpoints,       \* map[string]Endpoint            (main.go:45)
    endpointStatus,  \* map[string]*EndpointStatus     (main.go:46)
    mu,              \* sync.RWMutex                   (main.go:47)
    now,             \* time.Now(), in hours
    tickerC,         \* ticker.C, a channel of capacity 1: number of buffered ticks
    ticks,           \* ticks the ticker has produced so far
    sched,           \* the monitorEndpoints goroutine: position and locals, with the
                     \* number of passes started and, per name of the current
                     \* pass, the number of results written to the status store
    reg,             \* one handleEndpoint (POST) request: position and decoded body
    posted,          \* the POST /endpoint requests received so far
    rd,              \* one getStatus request: position and statusCopy
    resp,            \* what the client received from the last getStatus; not valid
                     \* before the first read and once the maps were written after it
    env              \* the run under observation: which clients and hosts exist and
                     \* how long the run is followed; fixed from the start

vars == <<endpoints, endpointStatus, mu, now, tickerC, ticks, sched, reg, posted, rd, resp, env>>

----------------------------------------------------------------------------
(* Bounds of the model *)

Names == {"a", "b"}

URLs == {"u1", "u2"}

\* Registrations racing with the scheduler pass that runs at process start
WideTicks == 0

WideClockSteps == 0

\* One endpoint followed over several passes while the history window moves
TimedTicks == 2

TimedClockSteps == 2

\* One unreachable endpoint followed for more passes than getLast5Downtimes keeps
LongTicks == 5

LongClockSteps == 1

(* Program constants *)

\* historyWindow = 10 * time.Hour
HistoryWindow == 10

\* the literal 5 of getLast5Downtimes
Last5 == 5

ClockStep == HistoryWindow \div 2

\* the zero time.Time of a LastChecked that was never set
ZeroTime == 0 - 1

\* What http.Get can return: a transport error, or a response with a status code
GetResults == {[err |-> "refused", code |-> 0],
               [err |-> "", code |-> 200],
               [err |-> "", code |-> 400]}

NoEndpoint == [Name |-> "", URL |-> ""]

NoDowntime == [Timestamp |-> ZeroTime, Duration |-> "", Reason |-> "nil"]

NoStatus == [Timestamp |-> ZeroTime, IsUp |-> FALSE, ResponseTime |-> 0,
             StatusCode |-> 0, Error |-> ""]

NoMap == <<>>

NoResp == [valid |-> FALSE, data |-> NoMap]

Unreachable == {r \in GetResults : r.err # ""}

\* two endpoints are registered
TwoNamesRun ==
    [requests |-> {[Name |-> "a", URL |-> "u1"], [Name |-> "b", URL |-> "u2"]},
     results |-> GetResults,
     maxTicks |-> WideTicks, maxClockSteps |-> WideClockSteps]

\* one name is registered twice, with different URLs
TwoURLsRun ==
    [requests |-> {[Name |-> "a", URL |-> "u1"], [Name |-> "a", URL |-> "u2"]},
     results |-> GetResults,
     maxTicks |-> WideTicks, maxClockSteps |-> WideClockSteps]

TimedRun ==
    [requests |-> {[Name |-> "a", URL |-> "u1"]},
     results |-> GetResults,
     maxTicks |-> TimedTicks, maxClockSteps |-> TimedClockSteps]

LongRun ==
    [requests |-> {[Name |-> "a", URL |-> "u1"]},
     results |-> Unreachable,
     maxTicks |-> LongTicks, maxClockSteps |-> LongClockSteps]

Runs == {TwoNamesRun, TwoURLsRun, TimedRun, LongRun}

----------------------------------------------------------------------------
(* Pure helpers *)

\* m[k] = v on a Go map
MapSet(m, k, v) == [x \in (DOMAIN m) \cup {k} |-> IF x = k THEN v ELSE m[x]]

\* time.Duration.String() of a whole number of hours
DurationString(d) == IF d = 0 THEN "0s" ELSE ToString(d) \o "h0m0s"

\* fmt.Sprintf("HTTP Status %d", code)
HTTPStatusReason(code) == "HTTP Status " \o ToString(code)

\* t.After(u)
After(t, u) == t > u

getStatusString(isUp) == IF isUp THEN "UP" ELSE "DOWN"

\* the filter loops of checkEndpoint and getStatus
FilterHistory(h, cutoff) == SelectSeq(h, LAMBDA r : After(r.Timestamp, cutoff))

\* getLast5Downtimes keeping the oldest five
getFirst5Downtimes(d) ==
    IF Len(d) <= Last5 THEN d ELSE SubSeq(d, 1, Last5)

getLast5Downtimes(d) ==
    IF Len(d) <= Last5 THEN d ELSE SubSeq(d, Len(d) - Last5 + 1, Len(d))

----------------------------------------------------------------------------
Init ==
    /\ endpoints = NoMap
    /\ endpointStatus = NoMap
    /\ mu = [writer |-> "none", readers |-> {}]
    /\ now = 0
    /\ tickerC = 0
    /\ ticks = 0
    /\ sched = [pc |-> "checkAll", endpointsCopy |-> NoMap, todo |-> {},
                endpoint |-> NoEndpoint, start |-> 0,
                status |-> NoStatus, downtime |-> NoDowntime,
                passes |-> 0, applied |-> NoMap]
    /\ reg = [pc |-> "idle", endpoint |-> NoEndpoint]
    /\ posted = {}
    /\ rd = [pc |-> "idle", cutoff |-> 0, statusCopy |-> NoMap]
    /\ resp = NoResp
    /\ env \in Runs

----------------------------------------------------------------------------
(* The clock and the ticker *)

\* Time passes; critical sections under mu.Lock() take no time
AdvanceClock ==
    /\ mu.writer = "none"
    /\ now < env.maxClockSteps * ClockStep
    /\ now' = now + ClockStep
    /\ UNCHANGED <<endpoints, endpointStatus, mu, tickerC, ticks, sched, reg, posted, rd, resp, env>>

\* time.NewTicker(checkInterval): a tick is sent to ticker.C, or dropped when
\* the one-slot channel still holds the previous tick
TickerFire ==
    /\ ticks < env.maxTicks
    /\ ticks' = ticks + 1
    /\ tickerC' = 1
    /\ UNCHANGED <<endpoints, endpointStatus, mu, now, sched, reg, posted, rd, resp, env>>

----------------------------------------------------------------------------
(* handleEndpoint, POST *)

\* main.go:67-71: the body decodes into an Endpoint
HandleEndpointDecode(e) ==
    /\ reg.pc = "idle"
    /\ e \notin posted
    /\ posted' = posted \cup {e}
    /\ reg' = [pc |-> "lock", endpoint |-> e]
    /\ UNCHANGED <<endpoints, endpointStatus, mu, now, tickerC, ticks, sched, rd, resp, env>>

\* HandleEndpointLock with the mutex not taken
HandleEndpointNoLock ==
    /\ reg.pc = "lock"
    /\ reg' = [reg EXCEPT !.pc = "endpoints"]
    /\ UNCHANGED <<endpoints, endpointStatus, mu, now, tickerC, ticks, sched, posted, rd, resp, env>>

\* main.go:73 mu.Lock()
HandleEndpointLock ==
    /\ reg.pc = "lock"
    /\ mu.writer = "none" /\ mu.readers = {}
    /\ mu' = [mu EXCEPT !.writer = "reg"]
    /\ reg' = [reg EXCEPT !.pc = "endpoints"]
    /\ UNCHANGED <<endpoints, endpointStatus, now, tickerC, ticks, sched, posted, rd, resp, env>>

\* main.go:74 endpoints[endpoint.Name] = endpoint
HandleEndpointPutEndpoint ==
    /\ reg.pc = "endpoints"
    /\ endpoints' = MapSet(endpoints, reg.endpoint.Name, reg.endpoint)
    /\ reg' = [reg EXCEPT !.pc = "status"]
    /\ resp' = NoResp
    /\ UNCHANGED <<endpointStatus, mu, now, tickerC, ticks, sched, posted, rd, env>>

\* main.go:75-80: the composite literal leaves CurrentStatus and LastChecked
\* at their zero values
NewEndpointStatus(e) ==
    [Name |-> e.Name, URL |-> e.URL, CurrentStatus |-> "", LastChecked |-> ZeroTime,
     History |-> <<>>, RecentDowntime |-> <<>>]

HandleEndpointPutStatus ==
    /\ reg.pc = "status"
    /\ endpointStatus' = MapSet(endpointStatus, reg.endpoint.Name,
                                NewEndpointStatus(reg.endpoint))
    /\ reg' = [reg EXCEPT !.pc = "unlock"]
    /\ resp' = NoResp
    /\ UNCHANGED <<endpoints, mu, now, tickerC, ticks, sched, posted, rd, env>>

\* main.go:81-84 mu.Unlock(), then the 201 response; nothing else is started
HandleEndpointUnlock ==
    /\ reg.pc = "unlock"
    /\ mu' = [mu EXCEPT !.writer = "none"]
    /\ reg' = [reg EXCEPT !.pc = "idle"]
    /\ UNCHANGED <<endpoints, endpointStatus, now, tickerC, ticks, sched, posted, rd, resp, env>>

----------------------------------------------------------------------------
(* getStatus *)

\* StatusCopyOf reporting the time of the read as LastChecked
StatusCopyOfStamped(s, t) ==
    [Name |-> s.Name, URL |-> s.URL, CurrentStatus |-> s.CurrentStatus,
     LastChecked |-> t,
     History |-> FilterHistory(s.History, t - HistoryWindow),
     RecentDowntime |-> getLast5Downtimes(s.RecentDowntime)]

\* main.go:95-111, for one entry, read at time t
StatusCopyOf(s, t) ==
    [Name |-> s.Name, URL |-> s.URL, CurrentStatus |-> s.CurrentStatus,
     LastChecked |-> s.LastChecked,
     History |-> FilterHistory(s.History, t - HistoryWindow),
     RecentDowntime |-> getLast5Downtimes(s.RecentDowntime)]

\* GetStatusRLock with the read lock not waiting for a writer
GetStatusNoRLock ==
    /\ rd.pc = "idle"
    /\ mu' = [mu EXCEPT !.readers = @ \cup {"rd"}]
    /\ rd' = [pc |-> "encode", cutoff |-> now - HistoryWindow,
              statusCopy |-> [n \in DOMAIN endpointStatus |->
                                 StatusCopyOf(endpointStatus[n], now)]]
    /\ UNCHANGED <<endpoints, endpointStatus, now, tickerC, ticks, sched, reg, posted, resp, env>>

\* main.go:89-112 mu.RLock() and the loop that builds statusCopy
GetStatusRLock ==
    /\ rd.pc = "idle"
    /\ mu.writer = "none"
    /\ mu' = [mu EXCEPT !.readers = @ \cup {"rd"}]
    /\ rd' = [pc |-> "encode", cutoff |-> now - HistoryWindow,
              statusCopy |-> [n \in DOMAIN endpointStatus |->
                                 StatusCopyOf(endpointStatus[n], now)]]
    /\ UNCHANGED <<endpoints, endpointStatus, now, tickerC, ticks, sched, reg, posted, resp, env>>

\* main.go:114 the response is written, then the deferred mu.RUnlock()
GetStatusReturn ==
    /\ rd.pc = "encode"
    /\ resp' = [valid |-> TRUE, data |-> rd.statusCopy]
    /\ mu' = [mu EXCEPT !.readers = @ \ {"rd"}]
    /\ rd' = [pc |-> "idle", cutoff |-> 0, statusCopy |-> NoMap]
    /\ UNCHANGED <<endpoints, endpointStatus, now, tickerC, ticks, sched, reg, posted, env>>

----------------------------------------------------------------------------
(* monitorEndpoints, checkAllEndpoints, checkEndpoint *)

\* main.go:135-139 mu.RLock() and the copy of the registry
CheckAllRLock ==
    /\ sched.pc = "checkAll"
    /\ mu.writer = "none"
    /\ mu' = [mu EXCEPT !.readers = @ \cup {"sched"}]
    /\ sched' = [sched EXCEPT !.pc = "rlocked", !.endpointsCopy = endpoints,
                              !.passes = @ + 1,
                              !.applied = [n \in DOMAIN endpoints |-> 0]]
    /\ UNCHANGED <<endpoints, endpointStatus, now, tickerC, ticks, reg, posted, rd, resp, env>>

\* CheckAllRUnlock with the read lock kept for the whole pass
CheckAllKeepRLock ==
    /\ sched.pc = "rlocked"
    /\ sched' = [sched EXCEPT !.pc = "range", !.todo = DOMAIN sched.endpointsCopy]
    /\ UNCHANGED <<endpoints, endpointStatus, mu, now, tickerC, ticks, reg, posted, rd, resp, env>>

\* main.go:140 mu.RUnlock()
CheckAllRUnlock ==
    /\ sched.pc = "rlocked"
    /\ mu' = [mu EXCEPT !.readers = @ \ {"sched"}]
    /\ sched' = [sched EXCEPT !.pc = "range", !.todo = DOMAIN sched.endpointsCopy]
    /\ UNCHANGED <<endpoints, endpointStatus, now, tickerC, ticks, reg, posted, rd, resp, env>>

\* main.go:142-143, 148-149: the range picks the next endpoint (map order is
\* unspecified), checkEndpoint takes start and sends the GET
CheckEndpointStart(n) ==
    /\ sched.pc = "range"
    /\ n \in sched.todo
    /\ sched' = [sched EXCEPT !.pc = "get", !.todo = @ \ {n},
                              !.endpoint = sched.endpointsCopy[n], !.start = now]
    /\ UNCHANGED <<endpoints, endpointStatus, mu, now, tickerC, ticks, reg, posted, rd, resp, env>>

\* StatusOf with the test of main.go:169 written code > 400
StatusOfAbove400(r, start, t) ==
    [Timestamp |-> t, ResponseTime |-> t - start,
     IsUp |-> (r.err = "" /\ ~(r.code > 400)),
     StatusCode |-> IF r.err = "" THEN r.code ELSE 0,
     Error |-> r.err]

\* main.go:152-178: the StatusRecord and the optional DowntimeRecord built
\* from what http.Get returned
StatusOf(r, start, t) ==
    [Timestamp |-> t, ResponseTime |-> t - start,
     IsUp |-> (r.err = "" /\ ~(r.code >= 400)),
     StatusCode |-> IF r.err = "" THEN r.code ELSE 0,
     Error |-> r.err]

DowntimeOf(r, t) ==
    IF r.err # ""
    THEN [Timestamp |-> t, Duration |-> "ongoing", Reason |-> r.err]
    ELSE IF r.code >= 400
         THEN [Timestamp |-> t, Duration |-> "ongoing", Reason |-> HTTPStatusReason(r.code)]
         ELSE NoDowntime

\* GetReturn giving up the pass on a transport error
GetReturnAbort(r) ==
    /\ sched.pc = "get"
    /\ sched' = IF r.err # ""
                THEN [sched EXCEPT !.pc = "wait", !.todo = {}]
                ELSE [sched EXCEPT !.pc = "lock",
                                   !.status = StatusOf(r, sched.start, now),
                                   !.downtime = DowntimeOf(r, now)]
    /\ UNCHANGED <<endpoints, endpointStatus, mu, now, tickerC, ticks, reg, posted, rd, resp, env>>

\* main.go:149-178 http.Get returns
GetReturn(r) ==
    /\ sched.pc = "get"
    /\ sched' = [sched EXCEPT !.pc = "lock",
                              !.status = StatusOf(r, sched.start, now),
                              !.downtime = DowntimeOf(r, now)]
    /\ UNCHANGED <<endpoints, endpointStatus, mu, now, tickerC, ticks, reg, posted, rd, resp, env>>

\* main.go:180 mu.Lock()
ApplyLock ==
    /\ sched.pc = "lock"
    /\ mu.writer = "none" /\ mu.readers = {}
    /\ mu' = [mu EXCEPT !.writer = "sched"]
    /\ sched' = [sched EXCEPT !.pc = "exists"]
    /\ UNCHANGED <<endpoints, endpointStatus, now, tickerC, ticks, reg, posted, rd, resp, env>>

\* ApplyStatusTo with the assignment to CurrentStatus forgotten
ApplyStatusToStale(s, status, t) ==
    [s EXCEPT !.LastChecked = t, !.History = Append(@, status)]

\* main.go:181-184
ApplyStatusTo(s, status, t) ==
    [s EXCEPT !.LastChecked = t,
              !.CurrentStatus = getStatusString(status.IsUp),
              !.History = Append(@, status)]

\* ApplyStatus with the exists test of main.go:181 forgotten: an absent name
\* gets an entry
ApplyStatusCreate ==
    /\ sched.pc = "exists"
    /\ endpointStatus' =
           MapSet(endpointStatus, sched.endpoint.Name,
                  ApplyStatusTo(IF sched.endpoint.Name \in DOMAIN endpointStatus
                                THEN endpointStatus[sched.endpoint.Name]
                                ELSE NewEndpointStatus(sched.endpoint),
                                sched.status, now))
    /\ sched' = [sched EXCEPT !.pc = "downtime"]
    /\ resp' = NoResp
    /\ UNCHANGED <<endpoints, mu, now, tickerC, ticks, reg, posted, rd, env>>

ApplyStatus ==
    /\ sched.pc = "exists"
    /\ IF sched.endpoint.Name \in DOMAIN endpointStatus
       THEN /\ endpointStatus' =
                  [endpointStatus EXCEPT ![sched.endpoint.Name] =
                       ApplyStatusTo(@, sched.status, now)]
            /\ sched' = [sched EXCEPT !.pc = "downtime",
                                      !.applied[sched.endpoint.Name] = @ + 1]
            /\ resp' = NoResp
       ELSE /\ sched' = [sched EXCEPT !.pc = "unlock"]
            /\ UNCHANGED <<endpointStatus, resp>>
    /\ UNCHANGED <<endpoints, mu, now, tickerC, ticks, reg, posted, rd, env>>

\* CloseLast with the close of the previous incident forgotten
CloseLastSkip(d, t) == d

\* CloseLast recomputing the duration of every record, not of the last open one
CloseLastAll(d, t) ==
    [i \in 1..Len(d) |-> [d[i] EXCEPT !.Duration = DurationString(t - d[i].Timestamp)]]

\* main.go:189-195: the last record, when it is still "ongoing", gets its duration
CloseLast(d, t) ==
    IF Len(d) > 0 /\ d[Len(d)].Duration = "ongoing"
    THEN [d EXCEPT ![Len(d)].Duration = DurationString(t - d[Len(d)].Timestamp)]
    ELSE d

\* ApplyDowntimeTo closing the open incident when the endpoint recovers
ApplyDowntimeToCloseOnUp(d, downtime, t) ==
    IF downtime # NoDowntime
    THEN Append(CloseLast(d, t), downtime)
    ELSE CloseLast(d, t)

\* main.go:187-197
ApplyDowntimeTo(d, downtime, t) ==
    IF downtime # NoDowntime
    THEN Append(CloseLast(d, t), downtime)
    ELSE d

ApplyDowntime ==
    /\ sched.pc = "downtime"
    /\ endpointStatus' =
           [endpointStatus EXCEPT ![sched.endpoint.Name].RecentDowntime =
                ApplyDowntimeTo(@, sched.downtime, now)]
    /\ sched' = [sched EXCEPT !.pc = "prune"]
    /\ resp' = NoResp
    /\ UNCHANGED <<endpoints, mu, now, tickerC, ticks, reg, posted, rd, env>>

\* main.go:199-207
PruneHistory(h, t) == FilterHistory(h, t - HistoryWindow)

ApplyPrune ==
    /\ sched.pc = "prune"
    /\ endpointStatus' =
           [endpointStatus EXCEPT ![sched.endpoint.Name].History = PruneHistory(@, now)]
    /\ sched' = [sched EXCEPT !.pc = "unlock"]
    /\ resp' = NoResp
    /\ UNCHANGED <<endpoints, mu, now, tickerC, ticks, reg, posted, rd, env>>

\* main.go:209 mu.Unlock(); checkEndpoint returns to the range loop
ApplyUnlock ==
    /\ sched.pc = "unlock"
    /\ mu' = [mu EXCEPT !.writer = "none"]
    /\ sched' = [sched EXCEPT !.pc = "range"]
    /\ UNCHANGED <<endpoints, endpointStatus, now, tickerC, ticks, reg, posted, rd, resp, env>>

\* main.go:142-145, 130: the range is exhausted, checkAllEndpoints returns and
\* monitorEndpoints blocks on <-ticker.C
CheckAllReturn ==
    /\ sched.pc = "range"
    /\ sched.todo = {}
    /\ sched' = [sched EXCEPT !.pc = "wait"]
    /\ UNCHANGED <<endpoints, endpointStatus, mu, now, tickerC, ticks, reg, posted, rd, resp, env>>

\* TickerRecv starting the next pass on a tick it leaves in the channel
TickerRecvKeep ==
    /\ sched.pc = "wait"
    /\ tickerC = 1
    /\ sched' = [sched EXCEPT !.pc = "checkAll"]
    /\ UNCHANGED <<endpoints, endpointStatus, mu, now, tickerC, ticks, reg, posted, rd, resp, env>>

\* main.go:130 <-ticker.C receives; the loop calls checkAllEndpoints again
TickerRecv ==
    /\ sched.pc = "wait"
    /\ tickerC = 1
    /\ tickerC' = 0
    /\ sched' = [sched EXCEPT !.pc = "checkAll"]
    /\ UNCHANGED <<endpoints, endpointStatus, mu, now, ticks, reg, posted, rd, resp, env>>

----------------------------------------------------------------------------
Next ==
    \/ AdvanceClock
    \/ TickerFire
    \/ \E e \in env.requests : HandleEndpointDecode(e)
    \/ HandleEndpointLock
    \/ HandleEndpointPutEndpoint
    \/ HandleEndpointPutStatus
    \/ HandleEndpointUnlock
    \/ GetStatusRLock
    \/ GetStatusReturn
    \/ CheckAllRLock
    \/ CheckAllRUnlock
    \/ \E n \in Names : CheckEndpointStart(n)
    \/ \E r \in env.results : GetReturn(r)
    \/ ApplyLock
    \/ ApplyStatus
    \/ ApplyDowntime
    \/ ApplyPrune
    \/ ApplyUnlock
    \/ CheckAllReturn
    \/ TickerRecv

Spec == Init /\ [][Next]_vars

----------------------------------------------------------------------------
(* checkEndpoint on its own: the range loop of checkAllEndpoints run over an  *)
(* arbitrary collection of endpoints, registered or not, against a store that *)
(* holds freshly registered names.                                            *)

EndpointMaps ==
    UNION {[T -> {[Name |-> n, URL |-> u] : n \in Names, u \in URLs}] : T \in SUBSET Names}

\* a Go map from names to endpoints keyed by the endpoint's own name
KeyedByName(m) == \A n \in DOMAIN m : m[n].Name = n

InitCheckEndpoint ==
    /\ \E m \in EndpointMaps :
          /\ KeyedByName(m)
          /\ endpoints = m
          /\ endpointStatus = [n \in DOMAIN m |-> NewEndpointStatus(m[n])]
    /\ \E c \in EndpointMaps :
          /\ KeyedByName(c)
          /\ sched = [pc |-> "range", endpointsCopy |-> c, todo |-> DOMAIN c,
                      endpoint |-> NoEndpoint, start |-> 0,
                      status |-> NoStatus, downtime |-> NoDowntime,
                      passes |-> 1, applied |-> [n \in DOMAIN c |-> 0]]
    /\ mu = [writer |-> "none", readers |-> {}]
    /\ now = 0
    /\ tickerC = 0
    /\ ticks = 0
    /\ reg = [pc |-> "idle", endpoint |-> NoEndpoint]
    /\ posted = {}
    /\ rd = [pc |-> "idle", cutoff |-> 0, statusCopy |-> NoMap]
    /\ resp = NoResp
    /\ env = TimedRun

NextCheckEndpoint ==
    \/ AdvanceClock
    \/ \E n \in Names : CheckEndpointStart(n)
    \/ \E r \in env.results : GetReturn(r)
    \/ ApplyLock
    \/ ApplyStatus
    \/ ApplyDowntime
    \/ ApplyPrune
    \/ ApplyUnlock
    \/ CheckAllReturn

SpecCheckEndpoint == InitCheckEndpoint /\ [][NextCheckEndpoint]_vars

----------------------------------------------------------------------------
(* Properties *)

Registered == DOMAIN endpointStatus

Downtimes(n) == endpointStatus[n].RecentDowntime

HistoryOf(n) == endpointStatus[n].History

\* C1: for every endpoint, only the last element of recentDowntime can have
\* duration "ongoing" (so at most one record is ongoing, and it is the last)
OngoingOnlyLast ==
    \A n \in Registered :
        \A i \in 1..Len(Downtimes(n)) :
            Downtimes(n)[i].Duration = "ongoing" => i = Len(Downtimes(n))

\* C1 witness: an endpoint holds a closed incident followed by an ongoing one,
\* and a successful check has been applied after them
OngoingOnlyLastWitness ==
    \E n \in Registered :
        /\ Len(Downtimes(n)) >= 2
        /\ Downtimes(n)[Len(Downtimes(n))].Duration = "ongoing"
        /\ Downtimes(n)[Len(Downtimes(n)) - 1].Duration # "ongoing"
        /\ endpointStatus[n].CurrentStatus = "UP"
        /\ sched.pc = "wait"

\* C2 (as claimed): the stored recentDowntime of every endpoint has at most 5 entries
StoredDowntimeAtMost5 ==
    \A n \in Registered : Len(Downtimes(n)) <= Last5

\* C3: while the history of an endpoint is non-empty, currentStatus is "UP"
\* when the last StatusRecord has isUp = true and "DOWN" when it has isUp = false
CurrentStatusReflectsLast ==
    \A n \in Registered :
        HistoryOf(n) # <<>> =>
            endpointStatus[n].CurrentStatus =
                (IF HistoryOf(n)[Len(HistoryOf(n))].IsUp THEN "UP" ELSE "DOWN")

\* C3 witness: an endpoint went from a failing check to a successful one and
\* both records are in its history
CurrentStatusReflectsLastWitness ==
    \E n \in Registered :
        /\ Len(HistoryOf(n)) >= 2
        /\ HistoryOf(n)[Len(HistoryOf(n))].IsUp
        /\ ~HistoryOf(n)[Len(HistoryOf(n)) - 1].IsUp
        /\ endpointStatus[n].CurrentStatus = "UP"
        /\ mu.writer = "none"

\* C9: every key of the status store is a key of the registry; outside
\* handleEndpoint's critical section the two maps have the same keys, and the
\* scheduler's snapshot of the registry holds only names the status store has
StatusKeysRegistered ==
    /\ DOMAIN endpointStatus \subseteq DOMAIN endpoints
    /\ mu.writer # "reg" => DOMAIN endpoints = DOMAIN endpointStatus
    /\ DOMAIN sched.endpointsCopy \subseteq DOMAIN endpointStatus
    /\ rd.pc = "encode" => DOMAIN rd.statusCopy = DOMAIN endpoints

\* C9 witness: a second name is being registered (its registry entry is written,
\* its status entry is not yet) while the first is in the scheduler's snapshot
StatusKeysRegisteredWitness ==
    /\ reg.pc = "status"
    /\ reg.endpoint.Name \notin DOMAIN endpointStatus
    /\ DOMAIN endpointStatus # {}
    /\ DOMAIN sched.endpointsCopy # {}

\* C4 (as claimed): when register has written both maps, the status entry of the
\* name has currentStatus "Pending", empty history and recentDowntime, and the
\* registry and the status entry carry the supplied URL
RegisterResetsToPending ==
    reg.pc = "unlock" =>
        /\ reg.endpoint.Name \in Registered
        /\ endpointStatus[reg.endpoint.Name].CurrentStatus = "Pending"
        /\ endpointStatus[reg.endpoint.Name].History = <<>>
        /\ endpointStatus[reg.endpoint.Name].RecentDowntime = <<>>
        /\ endpointStatus[reg.endpoint.Name].URL = reg.endpoint.URL
        /\ endpoints[reg.endpoint.Name].URL = reg.endpoint.URL

Checked(n) == endpointStatus[n].CurrentStatus \in {"UP", "DOWN"}

\* C5 (as claimed): when a scheduler pass completes, every endpoint whose
\* registration is committed has currentStatus "UP" or "DOWN"
PassLeavesNoPending ==
    [][(sched.pc = "range" /\ sched'.pc = "wait" /\ mu.writer = "none")
          => \A n \in Registered : Checked(n)]_vars

\* a check of n is running, or the pass in progress still reaches n
CheckComing(n) ==
    \/ sched.pc \in {"get", "lock", "exists", "downtime", "prune", "unlock"}
          /\ sched.endpoint.Name = n
    \/ sched.pc = "range" /\ n \in sched.todo
    \/ sched.pc = "rlocked" /\ n \in DOMAIN sched.endpointsCopy
    \/ sched.pc = "checkAll"

\* C6 (as claimed): an endpoint whose registration is committed and that has no
\* check result yet has a check on its way that needs no further tick
ImmediateCheckDispatched ==
    \A n \in Registered :
        (mu.writer # "reg" /\ ~Checked(n)) => CheckComing(n)

\* C7 (as claimed): the pruning step keeps exactly the records at or after
\* cutoff = now - 10 hours, in order
PruneKeepsFromCutoff ==
    [][(sched.pc = "prune" /\ sched'.pc = "unlock") =>
          endpointStatus'[sched.endpoint.Name].History =
              SelectSeq(endpointStatus[sched.endpoint.Name].History,
                        LAMBDA r : r.Timestamp >= now - HistoryWindow)]_vars

\* C8 (as claimed): a read that follows a read with no write in between builds
\* the same data
ReadTwiceIdentical ==
    (rd.pc = "encode" /\ resp.valid) => rd.statusCopy = resp.data

\* C8 (amended): a read that follows a read with no write in between builds the
\* same entries, except that each history has lost the records that are no
\* longer after the second read's cutoff
ReadTwiceAged ==
    (rd.pc = "encode" /\ resp.valid) =>
        /\ DOMAIN rd.statusCopy = DOMAIN resp.data
        /\ \A n \in DOMAIN resp.data :
              rd.statusCopy[n] =
                  [resp.data[n] EXCEPT !.History = FilterHistory(@, rd.cutoff)]

\* C8 witness: the second of two reads with no write in between has built a
\* copy that differs from what the first returned
ReadTwiceAgedWitness ==
    /\ rd.pc = "encode"
    /\ resp.valid
    /\ rd.statusCopy # resp.data

\* the check in progress is for a name the status store does not hold
AbsentName ==
    /\ sched.pc \in {"get", "lock", "exists", "downtime", "prune", "unlock"}
    /\ sched.endpoint.Name \notin DOMAIN endpointStatus

\* C10: a check for a name absent from the status store changes neither map in
\* any of its steps (no entry is created, no other entry changes), goes from the
\* exists test straight to the unlock, and ends with the mutex released
AbsentNameIsNoOp ==
    [][AbsentName =>
          /\ endpointStatus' = endpointStatus
          /\ endpoints' = endpoints
          /\ sched.pc = "exists" => sched'.pc = "unlock"
          /\ sched.pc = "unlock" => (sched'.pc = "range" /\ mu'.writer = "none")]_vars

\* C10 witness: the check of an absent name is past its exists test, after a
\* check of a registered name was applied
AbsentNameIsNoOpWitness ==
    /\ sched.pc = "unlock"
    /\ sched.endpoint.Name \notin DOMAIN endpointStatus
    /\ \E n \in Registered : HistoryOf(n) # <<>>

\* the scheduler holds the result of a probe (checkEndpoint past http.Get)
HoldsResult == sched.pc \in {"lock", "exists", "downtime", "prune", "unlock"}

\* C11: every probe result is one of: transport error (isUp false, error set,
\* no status code), response below 400 (isUp true, status code set, no error),
\* response of 400 or more (isUp false, status code set, no error); and a
\* DowntimeRecord, with duration "ongoing", is built exactly when isUp is false
ProbeClassified ==
    HoldsResult =>
        /\ \/ /\ sched.status.Error # ""
              /\ sched.status.StatusCode = 0
              /\ ~sched.status.IsUp
           \/ /\ sched.status.Error = ""
              /\ sched.status.StatusCode > 0
              /\ sched.status.IsUp <=> sched.status.StatusCode < 400
        /\ (sched.downtime # NoDowntime) <=> ~sched.status.IsUp
        /\ sched.downtime # NoDowntime =>
              /\ sched.downtime.Duration = "ongoing"
              /\ sched.downtime.Reason # ""

\* C11 witness: a response with status exactly 400 was classified
ProbeClassifiedWitness ==
    /\ HoldsResult
    /\ sched.status.StatusCode = 400
    /\ ~sched.status.IsUp
    /\ sched.status.Error = ""
    /\ sched.downtime.Duration = "ongoing"

InCheckSection == sched.pc \in {"exists", "downtime", "prune", "unlock"}

\* C12: while checkEndpoint is between its mu.Lock() and mu.Unlock() it is the
\* only holder of the mutex, no getStatus holds a copy in the making and no
\* register is between its writes; and every copy getStatus builds shows, for
\* each endpoint, a currentStatus that matches the newest record of the copied
\* history and, when "DOWN", a newest downtime entry that is "ongoing"
CheckAppliedAtomically ==
    /\ InCheckSection =>
          /\ mu = [writer |-> "sched", readers |-> {}]
          /\ rd.pc = "idle"
          /\ reg.pc \notin {"endpoints", "status", "unlock"}
    /\ rd.pc = "encode" =>
          \A n \in DOMAIN rd.statusCopy :
              /\ rd.statusCopy[n].History # <<>> =>
                    rd.statusCopy[n].CurrentStatus =
                        getStatusString(
                            rd.statusCopy[n].History[Len(rd.statusCopy[n].History)].IsUp)
              /\ rd.statusCopy[n].CurrentStatus = "DOWN" =>
                    /\ rd.statusCopy[n].RecentDowntime # <<>>
                    /\ rd.statusCopy[n].RecentDowntime[
                           Len(rd.statusCopy[n].RecentDowntime)].Duration = "ongoing"

\* C12 witness: getStatus holds a copy with a DOWN endpoint that has a closed
\* and an ongoing incident, while checkEndpoint waits at mu.Lock() with its result
CheckAppliedAtomicallyWitness ==
    /\ rd.pc = "encode"
    /\ sched.pc = "lock"
    /\ \E n \in DOMAIN rd.statusCopy :
          /\ rd.statusCopy[n].CurrentStatus = "DOWN"
          /\ Len(rd.statusCopy[n].RecentDowntime) >= 2

\* C13: the steps that apply a successful probe leave the endpoint's
\* recentDowntime as it was
SuccessKeepsDowntime ==
    [][(InCheckSection /\ sched.status.IsUp
           /\ sched.endpoint.Name \in DOMAIN endpointStatus) =>
          endpointStatus'[sched.endpoint.Name].RecentDowntime =
              endpointStatus[sched.endpoint.Name].RecentDowntime]_vars

\* C13 witness: a successful probe has been applied to an endpoint whose last
\* incident is still "ongoing"
SuccessKeepsDowntimeWitness ==
    /\ sched.pc = "unlock"
    /\ sched.status.IsUp
    /\ sched.endpoint.Name \in Registered
    /\ endpointStatus[sched.endpoint.Name].CurrentStatus = "UP"
    /\ Downtimes(sched.endpoint.Name) # <<>>
    /\ Downtimes(sched.endpoint.Name)[Len(Downtimes(sched.endpoint.Name))].Duration
           = "ongoing"

\* C14: in every step, unless the endpoint is registered anew, each record of
\* its recentDowntime keeps its place, its start timestamp and its reason, a
\* finalized duration stays as it is, and an "ongoing" duration stays or
\* becomes a finalized one
DowntimeRecordsStable ==
    [][\A n \in Registered :
          \/ endpointStatus'[n].RecentDowntime = <<>>
          \/ /\ Len(endpointStatus'[n].RecentDowntime) >= Len(Downtimes(n))
             /\ \A i \in 1..Len(Downtimes(n)) :
                   /\ endpointStatus'[n].RecentDowntime[i].Timestamp
                          = Downtimes(n)[i].Timestamp
                   /\ endpointStatus'[n].RecentDowntime[i].Reason
                          = Downtimes(n)[i].Reason
                   /\ Downtimes(n)[i].Duration # "ongoing" =>
                          endpointStatus'[n].RecentDowntime[i].Duration
                              = Downtimes(n)[i].Duration]_vars

\* C14 witness: an incident was closed with a duration of five hours and two
\* more failing checks were applied later
DowntimeRecordsStableWitness ==
    \E n \in Registered :
        /\ Len(Downtimes(n)) >= 3
        /\ Downtimes(n)[1].Duration = "5h0m0s"
        /\ now > Downtimes(n)[3].Timestamp

\* C15: when a pass has completed, every endpoint of the snapshot taken at its
\* start has had exactly one result written, whatever the results were; during
\* the pass no endpoint has more than one, and only snapshot names have any
EachEndpointOncePerPass ==
    /\ DOMAIN sched.applied = DOMAIN sched.endpointsCopy
    /\ \A n \in DOMAIN sched.applied : sched.applied[n] <= 1
    /\ sched.pc = "wait" =>
          /\ sched.todo = {}
          /\ \A n \in DOMAIN sched.applied : sched.applied[n] = 1

\* C15 witness: a pass over two endpoints has completed, one probe having
\* failed with a transport error and the other having succeeded
EachEndpointOncePerPassWitness ==
    /\ sched.pc = "wait"
    /\ DOMAIN sched.endpointsCopy = Names
    /\ \E n \in Registered :
          /\ HistoryOf(n) # <<>>
          /\ HistoryOf(n)[1].Error # ""
    /\ \E n \in Registered : endpointStatus[n].CurrentStatus = "UP"

\* C16: the ticker channel never holds more than one tick, a pass is started
\* only by the process start or by a received tick (so never more passes than
\* ticks produced plus one, the buffered tick not yet counted), the first pass
\* needs no tick, and the scheduler is in at most one place
PassesNeverOverlap ==
    /\ tickerC \in {0, 1}
    /\ sched.passes + tickerC <= ticks + 1
    /\ sched.pc = "checkAll" => sched.passes + tickerC <= ticks
    /\ ticks = 0 => sched.pc # "wait" \/ sched.passes = 1
    /\ sched.pc \in {"get", "lock", "exists", "downtime", "prune", "unlock"} =>
          sched.endpoint.Name \in DOMAIN sched.endpointsCopy \ sched.todo

\* C16 witness: two ticks fell into one pass; one is buffered, the pass goes on
PassesNeverOverlapWitness ==
    /\ ticks >= 2
    /\ sched.passes = 1
    /\ tickerC = 1
    /\ sched.pc = "get"

\* C17 (as claimed): a probe completes within a fixed bound of seconds, so none
\* is still in flight a whole history window (ten hours) after it was sent
ProbeWithinTimeout ==
    sched.pc = "get" => now - sched.start < HistoryWindow

\* C18 (as claimed): a result is written to the status entry of a name only if
\* it was probed on the URL that entry holds
ResultFromCurrentURL ==
    (sched.pc \in {"downtime", "prune"} /\ sched.endpoint.Name \in Registered) =>
        sched.endpoint.URL = endpointStatus[sched.endpoint.Name].URL

\* C19: while a probe is in flight the scheduler holds the mutex neither for
\* reading nor for writing, and it holds the read lock only while it copies
\* the registry
NoLockWhileProbing ==
    /\ sched.pc = "get" => (mu.writer # "sched" /\ "sched" \notin mu.readers)
    /\ "sched" \in mu.readers <=> sched.pc = "rlocked"
    /\ mu.writer = "sched" <=> InCheckSection

\* C19 witness: a register is inside its critical section while a probe is in
\* flight
NoLockWhileProbingWitness ==
    /\ sched.pc = "get"
    /\ mu.writer = "reg"
    /\ reg.pc = "status"

\* C20: the copy getStatus holds has, for each endpoint, at most 5 downtime
\* entries, which are the newest of the stored ones in stored order, and
\* exactly the stored history records later than the cutoff, in stored order;
\* and the steps of getStatus change neither map
SnapshotShape ==
    [][/\ rd'.pc = "encode" =>
             /\ DOMAIN rd'.statusCopy = DOMAIN endpointStatus'
             /\ \A n \in DOMAIN rd'.statusCopy :
                   LET c == rd'.statusCopy[n]
                       d == endpointStatus'[n].RecentDowntime
                       h == endpointStatus'[n].History
                       k == {i \in 1..Len(h) : h[i].Timestamp > rd'.cutoff}
                   IN  /\ Len(c.RecentDowntime) <= 5
                       /\ Len(c.RecentDowntime) = IF Len(d) < 5 THEN Len(d) ELSE 5
                       /\ \A i \in 1..Len(c.RecentDowntime) :
                             c.RecentDowntime[i]
                                 = d[Len(d) - Len(c.RecentDowntime) + i]
                       /\ Len(c.History) = Cardinality(k)
                       /\ \A i \in 1..Len(c.History) :
                             /\ c.History[i].Timestamp > rd'.cutoff
                             /\ c.History[i] = h[Len(h) - Len(c.History) + i]
       /\ rd'.pc # rd.pc =>
             (endpoints' = endpoints /\ endpointStatus' = endpointStatus)]_vars

\* C20 witness: getStatus holds a copy with 5 downtime entries of an endpoint
\* that has 6 stored
SnapshotShapeWitness ==
    /\ rd.pc = "encode"
    /\ \E n \in DOMAIN rd.statusCopy :
          /\ Len(rd.statusCopy[n].RecentDowntime) = 5
          /\ Len(Downtimes(n)) = 6

====
